---- MODULE Spec2Model ----
(***************************************************************************)
(* A model of the CBS renewable-electricity retrieval scripts              *)
(*   fetch_cbs_renewable.py       ("renewable":      _get_json, discovery) *)
(*   fetch_cbs_data.py            ("cbs_data":       manual fetch, mapping)*)
(*   fetch_cbs_renewable_data.py  ("renewable_data": per-source fetch)     *)
(* Python strings are sequences of one-character strings, so that strip,   *)
(* isdigit, re.match, replace and int are computed, not assumed.           *)
(***************************************************************************)
EXTENDS Integers, Sequences, FiniteSets, TLC

\* ------------------------------------------------------------------ bounds

\* Rows the server puts in one response before it adds a continuation link.
PageSize == 3

\* The longest record list handed to the pipeline in SpecPipe.
MaxRecords == 2

\* ---------------------------------------------------------------- strings

DigitChars == {"0", "1", "2", "3", "4", "5", "6", "7", "8", "9"}

IsSpace(c) == c = " "

IsDigit(c) == c \in DigitChars

DigitVal(c) ==
    CASE c = "0" -> 0 [] c = "1" -> 1 [] c = "2" -> 2 [] c = "3" -> 3
      [] c = "4" -> 4 [] c = "5" -> 5 [] c = "6" -> 6 [] c = "7" -> 7
      [] c = "8" -> 8 [] c = "9" -> 9

RECURSIVE LStrip(_)
LStrip(s) == IF s # <<>> /\ IsSpace(Head(s)) THEN LStrip(Tail(s)) ELSE s

RECURSIVE RStrip(_)
RStrip(s) ==
    IF s # <<>> /\ IsSpace(s[Len(s)]) THEN RStrip(SubSeq(s, 1, Len(s) - 1)) ELSE s

\* str.strip(): leading and trailing whitespace removed.
Strip(s) == RStrip(LStrip(s))

\* str.isdigit(): non-empty and every character a digit.
AllDigits(s) == s # <<>> /\ \A i \in 1..Len(s) : IsDigit(s[i])

RECURSIVE DigitsToInt(_)
DigitsToInt(s) ==
    IF s = <<>> THEN 0
    ELSE 10 * DigitsToInt(SubSeq(s, 1, Len(s) - 1)) + DigitVal(s[Len(s)])

\* s[i..] starts with t.
StartsWithAt(s, i, t) ==
    /\ i + Len(t) - 1 <= Len(s)
    /\ \A j \in 1..Len(t) : s[i + j - 1] = t[j]

\* "t in s"
Contains(s, t) == \E i \in 1..(Len(s) + 1) : StartsWithAt(s, i, t)

RECURSIVE ReplaceFrom(_, _, _, _)
ReplaceFrom(s, i, old, new) ==
    IF i > Len(s) THEN <<>>
    ELSE IF StartsWithAt(s, i, old)
         THEN new \o ReplaceFrom(s, i + Len(old), old, new)
         ELSE <<s[i]>> \o ReplaceFrom(s, i + 1, old, new)

\* str.replace(old, new) for a non-empty old: every occurrence, left to right.
Replace(s, old, new) == ReplaceFrom(s, 1, old, new)

\* ------------------------------------------------------------------ values

\* A JSON scalar in a metric column: an integer, null, or a string.
MkInt(n) == [t |-> "int", n |-> n, s |-> <<>>]
Null == [t |-> "null", n |-> 0, s |-> <<>>]
MkStr(s) == [t |-> "str", n |-> 0, s |-> s]

Rec(key, period, prod, cap) ==
    [key |-> key, period |-> period, prod |-> prod, cap |-> cap]

\* -------------------------------------------------------------- constants

\* range(5) in _get_json
GetJsonAttempts == 5

\* fetch_with_retry(url, max_retries=3, delay=2)
MaxRetries == 3

RetryDelay == 2

\* The year discover_source_keys matches on.
DiscoverYear == 2023

\* result_df['Year'] >= 1990
MinYear == 1990

Sheets == {"Onshore Wind", "Offshore Wind", "Solar"}

RefYears == {2022, 2023, 2024}

\* REFERENCE[sheet][year] = <<production (mln kWh), capacity (MW)>>
REFERENCE ==
    [sh \in Sheets |->
        CASE sh = "Onshore Wind" ->
               [y \in RefYears |-> CASE y = 2022 -> <<13134, 6131>>
                                     [] y = 2023 -> <<17482, 6692>>
                                     [] y = 2024 -> <<17657, 6955>>]
          [] sh = "Offshore Wind" ->
               [y \in RefYears |-> CASE y = 2022 -> <<7936, 2570>>
                                     [] y = 2023 -> <<11553, 4110>>
                                     [] y = 2024 -> <<15182, 4748>>]
          [] sh = "Solar" ->
               [y \in RefYears |-> CASE y = 2022 -> <<16657, 17356>>
                                     [] y = 2023 -> <<19607, 21957>>
                                     [] y = 2024 -> <<21822, 24772>>]]

\* Keys of the EnergySourcesTechniques dimension, and its labels.
KSolar == <<"E", "0", "0", "6", "5", "9", "0">>

KOnshore == <<"E", "0", "0", "6", "6", "3", "7">>

KOffshore == <<"E", "0", "0", "6", "6", "3", "8">>

KOther == <<"T", "0", "0", "1", "0", "2", "8">>

LSolar == <<"S", "o", "l", "a", "r", " ", "p", "h", "o", "t", "o", "v", "o", "l", "t", "a", "i", "c">>

LOnshore == <<"W", "i", "n", "d", " ", "e", "n", "e", "r", "g", "y", ":", " ", "o", "n", "s", "h", "o", "r", "e">>

LOffshore == <<"W", "i", "n", "d", " ", "e", "n", "e", "r", "g", "y", ":", " ", "o", "f", "f", "s", "h", "o", "r", "e">>

Sp == <<" ">>

JJ00 == <<"J", "J", "0", "0">>

Y2021 == <<"2", "0", "2", "1">>

Y2022 == <<"2", "0", "2", "2">>

Y2023 == <<"2", "0", "2", "3">>

Y2024 == <<"2", "0", "2", "4">>

YearChars(y) ==
    CASE y = 2021 -> Y2021 [] y = 2022 -> Y2022 [] y = 2023 -> Y2023 [] y = 2024 -> Y2024

\* ENERGY_SOURCES of fetch_cbs_renewable_data.py, in dict order: key, sheet.
ENERGY_SOURCES ==
    << <<KSolar \o Sp, "Solar">>,
       <<KOnshore \o Sp, "Onshore Wind">>,
       <<KOffshore \o Sp, "Offshore Wind">> >>

\* ------------------------------------------------------------ year parsers

\* What a year parser gives for one period string: a year, None, or an exception.
YearOf(y) == [tag |-> "year", y |-> y]

NoYear == [tag |-> "none", y |-> 0]

YearRaises == [tag |-> "raise", y |-> 0]

\* int(s) for a string: surrounding whitespace allowed, then decimal digits only.
IntOfStr(s) == IF AllDigits(Strip(s)) THEN YearOf(DigitsToInt(Strip(s))) ELSE YearRaises

\* re.match(r"(\d{4})JJ\d+", s): anchored at the start only; what follows the
\* first digit after "JJ" is not looked at.
MatchesYearJJ(s) ==
    /\ Len(s) >= 7
    /\ \A i \in 1..4 : IsDigit(s[i])
    /\ s[5] = "J" /\ s[6] = "J"
    /\ IsDigit(s[7])

\* fetch_cbs_renewable.py
year_from_period(period) ==
    LET s == Strip(period)
    IN  IF MatchesYearJJ(s) THEN YearOf(DigitsToInt(SubSeq(s, 1, 4))) ELSE NoYear

\* fetch_cbs_data.py
clean_year(period) ==
    LET p == Strip(period)
    IN  IF AllDigits(p) /\ Len(p) = 4 THEN YearOf(DigitsToInt(p))
        ELSE IF Contains(p, JJ00) THEN IntOfStr(Replace(p, JJ00, <<>>))
        ELSE NoYear

\* The first i at which four digits start, or 0.
FirstFourDigits(s) ==
    LET starts == {i \in 1..Len(s) : i + 3 <= Len(s) /\ \A j \in 0..3 : IsDigit(s[i + j])}
    IN  IF starts = {} THEN 0 ELSE CHOOSE i \in starts : \A k \in starts : i <= k

\* fetch_cbs_renewable_data.py: .str.extract(r'(\d{4})').astype(int) on one
\* element; a NaN (no match) makes astype(int) raise.
extract_year(period) ==
    LET i == FirstFourDigits(period)
    IN  IF i = 0 THEN YearRaises ELSE YearOf(DigitsToInt(SubSeq(period, i, i + 3)))

\* ------------------------------------------------------------ table cells

\* A cell of a DataFrame metric column: a number (kept in thousandths, so that
\* the division by 1000.0 is exact), NaN, or a string (object dtype).
Num(m) == [t |-> "num", m |-> m, s |-> <<>>]

NaN == [t |-> "nan", m |-> 0, s |-> <<>>]

StrCell(s) == [t |-> "str", m |-> 0, s |-> s]

\* pd.DataFrame(records): a JSON scalar as a cell.
CellOf(v) ==
    CASE v.t = "int" -> Num(v.n * 1000)
      [] v.t = "null" -> NaN
      [] v.t = "str" -> StrCell(v.s)

Row(year, prod, cap) == [year |-> year, prod |-> prod, cap |-> cap]

RECURSIVE InsertByYear(_, _)
InsertByYear(sorted, r) ==
    IF sorted = <<>> THEN <<r>>
    ELSE IF sorted[Len(sorted)].year <= r.year THEN Append(sorted, r)
    ELSE Append(InsertByYear(SubSeq(sorted, 1, Len(sorted) - 1), r), sorted[Len(sorted)])

RECURSIVE SortByYear(_)
\* sort_index() / sort_values('Year'): ascending; equal years keep their order.
SortByYear(rows) ==
    IF rows = <<>> THEN <<>>
    ELSE InsertByYear(SortByYear(SubSeq(rows, 1, Len(rows) - 1)), rows[Len(rows)])

\* A sheet's frame; present = FALSE is a sheet name absent from the dict.
Frame(rows) == [present |-> TRUE, rows |-> rows]

NoFrame == [present |-> FALSE, rows |-> <<>>]

NoFrames == [sh \in Sheets |-> NoFrame]

YearsOf(rows) == {rows[i].year : i \in 1..Len(rows)}

\* df.loc[year]: the rows of the index label.
RowsAt(rows, year) == SelectSeq(rows, LAMBDA r : r.year = year)

RECURSIVE MapSeq(_, _)
MapSeq(f(_), s) == IF s = <<>> THEN <<>> ELSE <<f(Head(s))>> \o MapSeq(f, Tail(s))

\* ----------------------------------------------- fetch_cbs_renewable.py

DRow(key, year, prod, cap) == [key |-> key, year |-> year, prod |-> prod, cap |-> cap]

\* fetch_data after _get_json: the Year column, rows without a year dropped.
RECURSIVE YearlyRows(_)
YearlyRows(records) ==
    IF records = <<>> THEN <<>>
    ELSE LET r == Head(records)
             y == year_from_period(r.period)
         IN  (IF y.tag = "year"
              THEN <<DRow(r.key, y.y, CellOf(r.prod), CellOf(r.cap))>>
              ELSE <<>>) \o YearlyRows(Tail(records))

\* pd.DataFrame([]) has no "Periods" column: df["Periods"] raises KeyError.
FetchDataRaises(records) == records = <<>>

\* column == ref: true for a number equal to the integer, false for NaN or a string.
CellEqInt(c, n) == c.t = "num" /\ c.m = n * 1000

\* REFERENCE.items(): the dict's insertion order.
ReferenceOrder == <<"Onshore Wind", "Offshore Wind", "Solar">>

\* d[key] = sheet on an insertion-ordered dict held as a sequence of pairs.
DictSet(d, key, sheet) ==
    IF \E i \in 1..Len(d) : d[i].key = key
    THEN [i \in 1..Len(d) |-> IF d[i].key = key THEN [key |-> key, sheet |-> sheet] ELSE d[i]]
    ELSE Append(d, [key |-> key, sheet |-> sheet])

\* A match on the production alone.
Matches2023ProductionOnly(df, sheet) ==
    SelectSeq(df, LAMBDA r :
        /\ r.year = DiscoverYear
        /\ CellEqInt(r.prod, REFERENCE[sheet][DiscoverYear][1]))

\* The df2023 rows whose two measurements equal the sheet's 2023 reference pair.
Matches2023(df, sheet) ==
    SelectSeq(df, LAMBDA r :
        /\ r.year = DiscoverYear
        /\ CellEqInt(r.prod, REFERENCE[sheet][DiscoverYear][1])
        /\ CellEqInt(r.cap, REFERENCE[sheet][DiscoverYear][2]))

RECURSIVE DiscoverFrom(_, _, _)
DiscoverFrom(df, i, key_to_sheet) ==
    IF i > Len(ReferenceOrder) THEN key_to_sheet
    ELSE LET match == Matches2023(df, ReferenceOrder[i])
         IN  DiscoverFrom(df, i + 1,
                 IF Len(match) = 1
                 THEN DictSet(key_to_sheet, match[1].key, ReferenceOrder[i])
                 ELSE key_to_sheet)

discover_source_keys(df) == DiscoverFrom(df, 1, <<>>)

\* The sheets for which discover_source_keys prints a WARNING.
DiscoverWarnings(df) == {sh \in Sheets : Len(Matches2023(df, sh)) # 1}

\* The keys bound to a sheet in key_to_sheet (empty: the sheet is unbound).
KeyOfSheet(key_to_sheet, sheet) ==
    {key_to_sheet[i].key : i \in {j \in 1..Len(key_to_sheet) : key_to_sheet[j].sheet = sheet}}

build_source_df(df, source_key) ==
    SortByYear(MapSeq(LAMBDA r : Row(r.year, r.prod, r.cap),
                      SelectSeq(df, LAMBDA r : r.key = source_key)))

RECURSIVE FramesFrom(_, _, _, _)
\* main, step 3: frames[sheet_name] = build_source_df(df, source_key)
FramesFrom(df, key_to_sheet, i, frames) ==
    IF i > Len(key_to_sheet) THEN frames
    ELSE FramesFrom(df, key_to_sheet, i + 1,
             [frames EXCEPT ![key_to_sheet[i].sheet] =
                  Frame(build_source_df(df, key_to_sheet[i].key))])

\* int(x) of a number: truncation toward zero.
IntTrunc(m) == IF m >= 0 THEN m \div 1000 ELSE -((-m) \div 1000)

\* verify, one metric: int(fetched_val) if pd.notna(fetched_val) else None,
\* then fetched == ref_val.
VerifyMetric(c, ref) ==
    CASE c.t = "nan" -> "FAIL"
      [] c.t = "num" -> IF IntTrunc(c.m) = ref THEN "PASS" ELSE "FAIL"
      [] c.t = "str" -> LET v == IntOfStr(c.s)
                        IN  IF v.tag = "raise" THEN "RAISE"
                            ELSE IF v.y = ref THEN "PASS" ELSE "FAIL"

\* verify, one (sheet, year): <<production status, capacity status>>. Two rows
\* under one index label make df.loc[year] a frame, and the truth value of
\* pd.notna(<Series>) raises ValueError.
VerifyYear(frames, sheet, year) ==
    LET f == frames[sheet]
        at == RowsAt(f.rows, year)
    IN  IF ~f.present \/ at = <<>> THEN <<"FAIL", "FAIL">>
        ELSE IF Len(at) > 1 THEN <<"RAISE", "RAISE">>
        ELSE <<VerifyMetric(at[1].prod, REFERENCE[sheet][year][1]),
               VerifyMetric(at[1].cap, REFERENCE[sheet][year][2])>>

VerifyReport(frames) == [sh \in Sheets |-> [y \in RefYears |-> VerifyYear(frames, sh, y)]]

ReportRaises(report) ==
    \E sh \in Sheets, y \in RefYears, k \in 1..2 : report[sh][y][k] = "RAISE"

ReportAllPass(report) ==
    \A sh \in Sheets, y \in RefYears, k \in 1..2 : report[sh][y][k] = "PASS"

\* verify(frames): all_pass, unless a cell raised.
verify(frames) ==
    LET report == VerifyReport(frames)
    IN  [raised |-> ReportRaises(report),
         ok |-> ReportAllPass(report),
         report |-> report]

\* ---------------------------------------------------- fetch_cbs_data.py

\* REFERENCE_VALUES[year][source] = <<Produce, Capacity>>
REFERENCE_VALUES ==
    [y \in RefYears |->
        CASE y = 2022 -> [sh \in Sheets |-> CASE sh = "Onshore Wind" -> <<13134, 6131>>
                                              [] sh = "Offshore Wind" -> <<7936, 2570>>
                                              [] sh = "Solar" -> <<16657, 17356>>]
          [] y = 2023 -> [sh \in Sheets |-> CASE sh = "Onshore Wind" -> <<17482, 6692>>
                                              [] sh = "Offshore Wind" -> <<11553, 4110>>
                                              [] sh = "Solar" -> <<19607, 21957>>]
          [] y = 2024 -> [sh \in Sheets |-> CASE sh = "Onshore Wind" -> <<17657, 6955>>
                                              [] sh = "Offshore Wind" -> <<15182, 4748>>
                                              [] sh = "Solar" -> <<21822, 24772>>]]

\* source_mapping.keys(): three labels and three codes.
SourceMappingKeys == {LSolar, LOnshore, LOffshore, KSolar, KOnshore, KOffshore}

source_mapping(key) ==
    CASE key \in {LSolar, KSolar} -> "Solar"
      [] key \in {LOnshore, KOnshore} -> "Onshore Wind"
      [] key \in {LOffshore, KOffshore} -> "Offshore Wind"

\* data[source_col].str.strip(), then data[data[source_col].isin(source_mapping.keys())]
MappedRecords(records) ==
    SelectSeq(MapSeq(LAMBDA r : [r EXCEPT !.key = Strip(r.key)], records),
              LAMBDA r : r.key \in SourceMappingKeys)

\* pd.to_numeric(col, errors='coerce').fillna(0)
ToNumeric(c) ==
    CASE c.t = "num" -> c
      [] c.t = "nan" -> Num(0)
      [] c.t = "str" -> LET v == IntOfStr(c.s)
                        IN  IF v.tag = "year" THEN Num(v.y * 1000) ELSE Num(0)

\* df_clean: Year, Source, the two metrics; rows without a year dropped.
RECURSIVE CleanRows(_)
CleanRows(mapped) ==
    IF mapped = <<>> THEN <<>>
    ELSE LET r == Head(mapped)
             y == clean_year(r.period)
         IN  (IF y.tag = "year"
              THEN <<DRow(source_mapping(r.key), y.y,
                          ToNumeric(CellOf(r.prod)), ToNumeric(CellOf(r.cap)))>>
              ELSE <<>>) \o CleanRows(Tail(mapped))

\* What a pipeline function gives: frames, or an exception.
Frames(frames) == [raised |-> "none", frames |-> frames]

Raises(exc) == [raised |-> exc, frames |-> NoFrames]

\* fetch_and_process_data after the download.
fetch_and_process_data(records) ==
    LET mapped == MappedRecords(records)
    IN  IF records = <<>> THEN Raises("ValueError")
        ELSE IF mapped = <<>> THEN Raises("ValueError")
        ELSE IF \E i \in 1..Len(mapped) : clean_year(mapped[i].period).tag = "raise"
             THEN Raises("ValueError")
        ELSE Frames([sh \in Sheets |->
                 Frame(SortByYear(MapSeq(LAMBDA r : Row(r.year, r.prod, r.cap),
                           SelectSeq(CleanRows(mapped), LAMBDA r : r.key = sh))))])

\* abs(fetched - ref) < 1
WithinOne(c, ref) ==
    LET d == c.m - ref * 1000
    IN  IF (IF d >= 0 THEN d ELSE -d) < 1000 THEN "PASS" ELSE "FAIL"

\* verify_data, one (year, source): <<production status, capacity status>>.
VerifyDataYear(output_dfs, sheet, year) ==
    LET f == output_dfs[sheet]
        at == RowsAt(f.rows, year)
    IN  IF ~f.present THEN <<"ALL MISSING", "ALL MISSING">>
        ELSE IF at = <<>> THEN <<"YEAR MISSING", "YEAR MISSING">>
        ELSE IF Len(at) > 1 THEN <<"RAISE", "RAISE">>
        ELSE <<WithinOne(at[1].prod, REFERENCE_VALUES[year][sheet][1]),
               WithinOne(at[1].cap, REFERENCE_VALUES[year][sheet][2])>>

\* verify_data(output_dfs): all_passed, unless a cell raised.
verify_data(output_dfs) ==
    LET report == [sh \in Sheets |-> [y \in RefYears |-> VerifyDataYear(output_dfs, sh, y)]]
    IN  [raised |-> ReportRaises(report),
         ok |-> /\ ~ReportRaises(report)
                /\ \A sh \in Sheets, y \in RefYears, k \in 1..2 :
                       report[sh][y][k] \notin {"FAIL", "ALL MISSING"},
         report |-> report]

\* ------------------------------------------- fetch_cbs_renewable_data.py

\* REFERENCE_DATA[sheet][year] = <<production, capacity>>; the production
\* 17.482 is held as 17482 thousandths.
REFERENCE_DATA ==
    [sh \in Sheets |->
        CASE sh = "Onshore Wind" ->
               [y \in RefYears |-> CASE y = 2022 -> <<13134, 6131>>
                                     [] y = 2023 -> <<17482, 6692>>
                                     [] y = 2024 -> <<17657, 6955>>]
          [] sh = "Offshore Wind" ->
               [y \in RefYears |-> CASE y = 2022 -> <<7936, 2570>>
                                     [] y = 2023 -> <<11553, 4110>>
                                     [] y = 2024 -> <<15182, 4748>>]
          [] sh = "Solar" ->
               [y \in RefYears |-> CASE y = 2022 -> <<16657, 17356>>
                                     [] y = 2023 -> <<19607, 21957>>
                                     [] y = 2024 -> <<21822, 24772>>]]

\* A column of pd.DataFrame(value) is of object dtype when it holds a string
\* or nothing but None; a None among numbers becomes NaN in a float column.
ObjectColumn(vals) ==
    \/ \E i \in 1..Len(vals) : vals[i].t = "str"
    \/ \A i \in 1..Len(vals) : vals[i].t = "null"

NoneCell == [t |-> "none", m |-> 0, s |-> <<>>]

ColumnCell(vals, v) == IF v.t = "null" /\ ObjectColumn(vals) THEN NoneCell ELSE CellOf(v)

\* column / 1000.0 raises TypeError on a string or a None element.
DivisionRaises(vals) == ObjectColumn(vals)

DivideBy1000(c) == IF c.t = "num" THEN Num(c.m \div 1000) ELSE c

FrameRows(rows) == [raised |-> "none", rows |-> rows]

FrameRaises(exc) == [raised |-> exc, rows |-> <<>>]

\* fetch_energy_source_data after fetch_with_retry: data['value'] to the frame.
energy_source_frame(value) ==
    LET prods == MapSeq(LAMBDA r : r.prod, value)
        caps == MapSeq(LAMBDA r : r.cap, value)
    IN  IF value = <<>> THEN FrameRaises("KeyError")
        ELSE IF \E i \in 1..Len(value) : extract_year(value[i].period).tag = "raise"
             THEN FrameRaises("ValueError")
        ELSE IF DivisionRaises(prods) THEN FrameRaises("TypeError")
        ELSE FrameRows(SortByYear(SelectSeq(
                 MapSeq(LAMBDA r : Row(extract_year(r.period).y,
                                       DivideBy1000(CellOf(r.prod)),
                                       ColumnCell(caps, r.cap)),
                        value),
                 LAMBDA r : r.year >= MinYear)))

\* abs(x / 1000.0 - ref) < 0.01 in IEEE doubles, for the <<x, ref * 1000>> in
\* which x lies exactly 10 from a reference production: the difference of
\* the two doubles falls on either side of the double 0.01.
RoundsBelowHundredth ==
    {<<13124, 13134>>, <<13144, 13134>>, <<17472, 17482>>, <<7926, 7936>>, <<7946, 7936>>,
     <<11563, 11553>>, <<15172, 15182>>, <<15192, 15182>>, <<19597, 19607>>, <<21812, 21822>>}

\* abs(fetched - ref) < tol, both in thousandths; NaN compares false. At the
\* tolerance 1 a difference of 1 is exact in doubles; at 0.01 it is not.
Within(c, refMilli, tolMilli) ==
    LET d == c.m - refMilli
        a == IF d >= 0 THEN d ELSE -d
    IN  CASE c.t = "nan" -> "FAIL"
          [] c.t \in {"str", "none"} -> "RAISE"
          [] c.t = "num" ->
               IF a < tolMilli \/ (a = tolMilli /\ <<c.m, refMilli>> \in RoundsBelowHundredth)
               THEN "PASS" ELSE "FAIL"

\* verify_against_reference, one (source, year).
VerifyRefYear(data_dict, sheet, year) ==
    LET f == data_dict[sheet]
        at == RowsAt(f.rows, year)
    IN  IF ~f.present \/ at = <<>> THEN <<"SKIP", "SKIP">>
        ELSE IF Len(at) > 1 THEN <<"RAISE", "RAISE">>
        ELSE <<Within(at[1].prod, REFERENCE_DATA[sheet][year][1], 10),
               Within(at[1].cap, REFERENCE_DATA[sheet][year][2] * 1000, 1000)>>

\* verify_against_reference(data_dict): returns None; ok is its printed summary
\* (matches == total). It raises on a duplicated year, on a string or None
\* cell, and (KeyError 'Match') when no row was compared.
verify_against_reference(data_dict) ==
    LET report == [sh \in Sheets |-> [y \in RefYears |-> VerifyRefYear(data_dict, sh, y)]]
    IN  [raised |-> \/ ReportRaises(report)
                    \/ \A sh \in Sheets, y \in RefYears, k \in 1..2 : report[sh][y][k] = "SKIP",
         ok |-> \A sh \in Sheets, y \in RefYears, k \in 1..2 :
                    report[sh][y][k] \in {"PASS", "SKIP"},
         report |-> report]

\* ------------------------------------------------------------- the server

\* A row of the dataset as the server publishes it for a sheet and a year.
RefRecord(key, sheet, y) ==
    Rec(key, YearChars(y) \o JJ00, MkInt(REFERENCE[sheet][y][1]), MkInt(REFERENCE[sheet][y][2]))

RefRows(key, sheet) ==
    <<RefRecord(key, sheet, 2022), RefRecord(key, sheet, 2023), RefRecord(key, sheet, 2024)>>

\* The published table: keys carry a trailing blank, as ENERGY_SOURCES has them.
DS_Ref ==
    RefRows(KOnshore \o Sp, "Onshore Wind") \o RefRows(KOffshore \o Sp, "Offshore Wind")
        \o RefRows(KSolar \o Sp, "Solar")

\* The same without Solar 2024.
DS_NoSolar2024 == SubSeq(DS_Ref, 1, 8)

\* The same with one production figure off.
DS_WrongValue ==
    [DS_Ref EXCEPT ![9] = Rec(KSolar \o Sp, Y2024 \o JJ00, MkInt(21000), MkInt(24772))]

\* Rows of another energy source only.
DS_Other ==
    <<Rec(KOther \o Sp, Y2022 \o JJ00, MkInt(500), MkInt(40)),
      Rec(KOther \o Sp, Y2023 \o JJ00, MkInt(600), MkInt(50))>>

DS_Empty == <<>>

\* Four Solar years: more rows of one source than one response holds.
DS_LongSolar ==
    <<Rec(KSolar \o Sp, Y2021 \o JJ00, MkInt(11495), MkInt(14823))>> \o RefRows(KSolar \o Sp, "Solar")
        \o RefRows(KOnshore \o Sp, "Onshore Wind")

\* The published table with keys that carry no trailing blank.
DS_BareKeys ==
    RefRows(KOnshore, "Onshore Wind") \o RefRows(KOffshore, "Offshore Wind")
        \o RefRows(KSolar, "Solar")

Datasets ==
    {DS_Ref, DS_NoSolar2024, DS_WrongValue, DS_Other, DS_Empty, DS_LongSolar, DS_BareKeys}

\* The name under which a response carries its continuation URL.
LinkKeys == {"odata.nextLink", "@odata.nextLink"}

Url(scheme, filtered, filter, page) ==
    [scheme |-> scheme, filtered |-> filtered, filter |-> filter, page |-> page]

\* Python None for a URL.
NoUrl == Url("", FALSE, <<>>, 0)

\* The rows a URL selects: $filter=EnergySourcesTechniques eq '<key>' is exact.
Selected(data, u) ==
    IF u.filtered THEN SelectSeq(data, LAMBDA r : r.key = u.filter) ELSE data

Min(a, b) == IF a <= b THEN a ELSE b

\* The JSON body of a successful GET of u: "value", and under linkKey the
\* next page's URL while rows are left.
Response(data, key, u) ==
    LET rows == Selected(data, u)
        lo == (u.page - 1) * PageSize + 1
        hi == Min(u.page * PageSize, Len(rows))
    IN  [value |-> SubSeq(rows, lo, hi),
         links |-> IF hi < Len(rows)
                   THEN [k \in {key} |-> Url("https", u.filtered, u.filter, u.page + 1)]
                   ELSE [k \in {} |-> NoUrl]]

\* data.get(name): the URL under name, or None.
GetLink(resp, name) == IF name \in DOMAIN resp.links THEN resp.links[name] ELSE NoUrl

\* ------------------------------------------------------------------ state

VARIABLES
    script,       \* which script runs
    dataset,      \* the server's table
    linkKey,      \* the server's continuation field name
    pc,           \* the position in main
    url,          \* the URL the fetcher is at (NoUrl: None)
    attempt,      \* the retry loop's index
    results,      \* the fetcher's accumulator (results, all_data, data['value'])
    sleeps,       \* the time.sleep calls made for the current URL
    tries,        \* per page of the current fetch, the GETs issued
    srcIdx,       \* fetch_all_renewable_data: index into ENERGY_SOURCES
    df,           \* fetch_cbs_renewable.py: the yearly rows
    key_to_sheet, \* discover_source_keys' result
    warned,       \* the sheets discover_source_keys warned about
    frames,       \* frames / output_dfs / renewable_data
    written,      \* the sheets of the spreadsheet, once written
    exported,     \* the spreadsheet was written
    verdict,      \* what the verifier returned
    raised,       \* the exception that ended the run, or "none"
    fetchFailed,  \* a fetch ended in an exception
    exitCode,     \* the process exit status, -1 while running
    period,       \* a period string handed to the year parsers
    parsed        \* the parser applied to it, and what it gave

vars == <<script, dataset, linkKey, pc, url, attempt, results, sleeps, tries, srcIdx, df,
          key_to_sheet, warned, frames, written, exported, verdict, raised, fetchFailed,
          exitCode, period, parsed>>

Scripts == {"renewable", "cbs_data", "renewable_data"}

NotParsed == [fn |-> "none", out |-> NoYear]

NoVerdict == [raised |-> FALSE, ok |-> FALSE, report |-> [sh \in Sheets |-> [y \in RefYears |-> <<"", "">>]]]

\* The state of a script at its start, for a server table and link name.
InitWith(sc, data, key) ==
    /\ script = sc
    /\ dataset = data
    /\ linkKey = key
    /\ pc = "start"
    /\ url = NoUrl
    /\ attempt = 0
    /\ results = <<>>
    /\ sleeps = <<>>
    /\ tries = <<>>
    /\ srcIdx = 0
    /\ df = <<>>
    /\ key_to_sheet = <<>>
    /\ warned = {}
    /\ frames = NoFrames
    /\ written = NoFrames
    /\ exported = FALSE
    /\ verdict = NoVerdict
    /\ raised = "none"
    /\ fetchFailed = FALSE
    /\ exitCode = -1
    /\ period = <<>>
    /\ parsed = NotParsed

Init == \E sc \in Scripts, data \in Datasets, key \in LinkKeys : InitWith(sc, data, key)

\* One more GET counted on the current page.
Tried == [tries EXCEPT ![Len(tries)] = @ + 1]

\* An uncaught exception ends the process with status 1.
Crash(exc) ==
    /\ pc' = "done"
    /\ raised' = exc
    /\ exitCode' = 1

\* -------------------------------------- fetch_cbs_renewable.py: the run

\* wait = 2 ** (attempt + 1)
GetJsonWait(a) == 2 ^ (a + 1)

\* fetch_data: url = f"{BASE_URL}/TypedDataSet?$format=json&$select=..."
FetchData ==
    /\ script = "renewable" /\ pc = "start"
    /\ pc' = "get_json"
    /\ url' = Url("https", FALSE, <<>>, 1)
    /\ attempt' = 0
    /\ results' = <<>>
    /\ sleeps' = <<>>
    /\ tries' = <<0>>
    /\ UNCHANGED <<period, parsed, script, dataset, linkKey, srcIdx, df, key_to_sheet, warned, frames,
                   written, exported, verdict, raised, fetchFailed, exitCode>>

\* _get_json: session.get succeeds; the batch is appended, the link followed.
GetJsonOk ==
    /\ script = "renewable" /\ pc = "get_json" /\ attempt < GetJsonAttempts
    /\ LET data == Response(dataset, linkKey, url)
           next_link == GetLink(data, "odata.nextLink")
       IN  /\ results' = results \o data.value
           /\ url' = next_link
           /\ tries' = IF next_link = NoUrl THEN Tried ELSE Append(Tried, 0)
           /\ pc' = IF next_link = NoUrl THEN "fetched" ELSE "get_json"
    /\ attempt' = 0
    /\ sleeps' = <<>>
    /\ UNCHANGED <<period, parsed, script, dataset, linkKey, srcIdx, df, key_to_sheet, warned, frames,
                   written, exported, verdict, raised, fetchFailed, exitCode>>

\* GetJsonRetry with the slip of moving on to the next page after a failure.
GetJsonRetrySkipsPage ==
    /\ script = "renewable" /\ pc = "get_json" /\ attempt < GetJsonAttempts
    /\ sleeps' = Append(sleeps, GetJsonWait(attempt))
    /\ attempt' = attempt + 1
    /\ tries' = Tried
    /\ url' = [url EXCEPT !.page = @ + 1]
    /\ UNCHANGED <<period, parsed, script, dataset, linkKey, pc, results, srcIdx, df,
                   key_to_sheet, warned, frames, written, exported, verdict, raised,
                   fetchFailed, exitCode>>

\* _get_json: requests.ConnectionError or requests.Timeout; sleep, next attempt.
GetJsonRetry ==
    /\ script = "renewable" /\ pc = "get_json" /\ attempt < GetJsonAttempts
    /\ sleeps' = Append(sleeps, GetJsonWait(attempt))
    /\ attempt' = attempt + 1
    /\ tries' = Tried
    /\ UNCHANGED <<period, parsed, script, dataset, linkKey, pc, url, results, srcIdx, df, key_to_sheet,
                   warned, frames, written, exported, verdict, raised, fetchFailed, exitCode>>

\* _get_json: the for loop ran out; RuntimeError, which nothing catches.
GetJsonExhausted ==
    /\ script = "renewable" /\ pc = "get_json" /\ attempt = GetJsonAttempts
    /\ Crash("RuntimeError")
    /\ fetchFailed' = TRUE
    /\ UNCHANGED <<period, parsed, script, dataset, linkKey, url, attempt, results, sleeps, tries, srcIdx,
                   df, key_to_sheet, warned, frames, written, exported, verdict>>

\* _get_json: raise_for_status or r.json() raises; only ConnectionError and
\* Timeout are caught.
GetJsonHTTPError ==
    /\ script = "renewable" /\ pc = "get_json" /\ attempt < GetJsonAttempts
    /\ Crash("HTTPError")
    /\ fetchFailed' = TRUE
    /\ tries' = Tried
    /\ UNCHANGED <<period, parsed, script, dataset, linkKey, url, attempt, results, sleeps, srcIdx,
                   df, key_to_sheet, warned, frames, written, exported, verdict>>

\* fetch_data, after _get_json returned.
FetchDataFrame ==
    /\ script = "renewable" /\ pc = "fetched"
    /\ IF FetchDataRaises(results)
       THEN Crash("KeyError") /\ df' = df
       ELSE /\ df' = YearlyRows(results)
            /\ pc' = "discover"
            /\ UNCHANGED <<raised, exitCode>>
    /\ UNCHANGED <<period, parsed, script, dataset, linkKey, url, attempt, results, sleeps, tries, srcIdx,
                   key_to_sheet, warned, frames, written, exported, verdict, fetchFailed>>

DiscoverSourceKeys ==
    /\ script = "renewable" /\ pc = "discover"
    /\ key_to_sheet' = discover_source_keys(df)
    /\ warned' = DiscoverWarnings(df)
    /\ pc' = "build"
    /\ UNCHANGED <<period, parsed, script, dataset, linkKey, url, attempt, results, sleeps, tries, srcIdx,
                   df, frames, written, exported, verdict, raised, fetchFailed, exitCode>>

\* main, step 3
BuildFrames ==
    /\ script = "renewable" /\ pc = "build"
    /\ frames' = FramesFrom(df, key_to_sheet, 1, NoFrames)
    /\ pc' = "export"
    /\ UNCHANGED <<period, parsed, script, dataset, linkKey, url, attempt, results, sleeps, tries, srcIdx,
                   df, key_to_sheet, warned, written, exported, verdict, raised,
                   fetchFailed, exitCode>>

\* main, step 4. A workbook without a sheet cannot be saved: openpyxl raises
\* IndexError when the writer closes.
WriteExcel ==
    /\ script = "renewable" /\ pc = "export"
    /\ IF \A sh \in Sheets : ~frames[sh].present
       THEN Crash("IndexError") /\ UNCHANGED <<written, exported>>
       ELSE /\ written' = frames
            /\ exported' = TRUE
            /\ pc' = "verify"
            /\ UNCHANGED <<raised, exitCode>>
    /\ UNCHANGED <<period, parsed, script, dataset, linkKey, url, attempt, results, sleeps, tries, srcIdx,
                   df, key_to_sheet, warned, frames, verdict, fetchFailed>>

\* main, step 5: ok = verify(frames)
Verify ==
    /\ script = "renewable" /\ pc = "verify"
    /\ verdict' = verify(frames)
    /\ IF verify(frames).raised
       THEN Crash("ValueError")
       ELSE pc' = "exit" /\ UNCHANGED <<raised, exitCode>>
    /\ UNCHANGED <<period, parsed, script, dataset, linkKey, url, attempt, results, sleeps, tries, srcIdx,
                   df, key_to_sheet, warned, frames, written, exported, fetchFailed>>

\* sys.exit(0 if ok else 1)
SysExit ==
    /\ script = "renewable" /\ pc = "exit"
    /\ exitCode' = IF verdict.ok THEN 0 ELSE 1
    /\ pc' = "done"
    /\ UNCHANGED <<period, parsed, script, dataset, linkKey, url, attempt, results, sleeps, tries, srcIdx,
                   df, key_to_sheet, warned, frames, written, exported, verdict, raised,
                   fetchFailed>>

Renewable ==
    \/ FetchData \/ GetJsonOk \/ GetJsonRetry \/ GetJsonExhausted \/ GetJsonHTTPError
    \/ FetchDataFrame \/ DiscoverSourceKeys \/ BuildFrames \/ WriteExcel \/ Verify \/ SysExit

\* ------------------------------------------- fetch_cbs_data.py: the run

\* main's "except Exception as e": the error is printed and main returns.
Caught(exc) ==
    /\ pc' = "done"
    /\ raised' = exc
    /\ exitCode' = 0

\* cbsodata.get_data(DATASET_ID) returns the whole table.
CbsodataOk ==
    /\ script = "cbs_data" /\ pc = "start"
    /\ results' = dataset
    /\ pc' = "process"
    /\ UNCHANGED <<period, parsed, script, dataset, linkKey, url, attempt, sleeps, tries, srcIdx, df,
                   key_to_sheet, warned, frames, written, exported, verdict, raised,
                   fetchFailed, exitCode>>

\* cbsodata.get_data raises: fetch_data_manually, from the http base URL.
CbsodataFails ==
    /\ script = "cbs_data" /\ pc = "start"
    /\ pc' = "manual"
    /\ url' = Url("http", FALSE, <<>>, 1)
    /\ results' = <<>>
    /\ tries' = <<0>>
    /\ UNCHANGED <<period, parsed, script, dataset, linkKey, attempt, sleeps, srcIdx, df, key_to_sheet,
                   warned, frames, written, exported, verdict, raised, fetchFailed, exitCode>>

\* url.replace("https", "http") when the link starts with https
HttpOf(u) == IF u.scheme = "https" THEN [u EXCEPT !.scheme = "http"] ELSE u

\* fetch_data_manually: one GET succeeds.
ManualOk ==
    /\ script = "cbs_data" /\ pc = "manual"
    /\ LET data == Response(dataset, linkKey, url)
           next_link == GetLink(data, "@odata.nextLink")
       IN  /\ results' = results \o data.value
           /\ url' = IF next_link = NoUrl THEN NoUrl ELSE HttpOf(next_link)
           /\ tries' = IF next_link = NoUrl THEN Tried ELSE Append(Tried, 0)
           /\ pc' = IF next_link = NoUrl THEN "process" ELSE "manual"
    /\ UNCHANGED <<period, parsed, script, dataset, linkKey, attempt, sleeps, srcIdx, df, key_to_sheet,
                   warned, frames, written, exported, verdict, raised, fetchFailed, exitCode>>

\* fetch_data_manually: any exception is printed and raised again; main catches it.
ManualFail ==
    /\ script = "cbs_data" /\ pc = "manual"
    /\ Caught("RequestException")
    /\ fetchFailed' = TRUE
    /\ tries' = Tried
    /\ UNCHANGED <<period, parsed, script, dataset, linkKey, url, attempt, results, sleeps, srcIdx, df,
                   key_to_sheet, warned, frames, written, exported, verdict>>

\* fetch_and_process_data, after the download
FetchAndProcess ==
    /\ script = "cbs_data" /\ pc = "process"
    /\ LET out == fetch_and_process_data(results)
       IN  IF out.raised # "none"
           THEN Caught(out.raised) /\ frames' = frames
           ELSE /\ frames' = out.frames
                /\ pc' = "verify"
                /\ UNCHANGED <<raised, exitCode>>
    /\ UNCHANGED <<period, parsed, script, dataset, linkKey, url, attempt, results, sleeps, tries, srcIdx,
                   df, key_to_sheet, warned, written, exported, verdict, fetchFailed>>

\* main: verify_data(output_dfs), its result dropped
VerifyData ==
    /\ script = "cbs_data" /\ pc = "verify"
    /\ verdict' = verify_data(frames)
    /\ IF verify_data(frames).raised
       THEN Caught("ValueError")
       ELSE pc' = "export" /\ UNCHANGED <<raised, exitCode>>
    /\ UNCHANGED <<period, parsed, script, dataset, linkKey, url, attempt, results, sleeps, tries, srcIdx,
                   df, key_to_sheet, warned, frames, written, exported, fetchFailed>>

\* main: every sheet of output_dfs is written; main returns.
ExportExcel ==
    /\ script = "cbs_data" /\ pc = "export"
    /\ written' = frames
    /\ exported' = TRUE
    /\ pc' = "done"
    /\ exitCode' = 0
    /\ UNCHANGED <<period, parsed, script, dataset, linkKey, url, attempt, results, sleeps, tries, srcIdx,
                   df, key_to_sheet, warned, frames, verdict, raised, fetchFailed>>

CbsData ==
    \/ CbsodataOk \/ CbsodataFails \/ ManualOk \/ ManualFail
    \/ FetchAndProcess \/ VerifyData \/ ExportExcel

\* ---------------------------------- fetch_cbs_renewable_data.py: the run

\* url = f"{BASE_URL}/TypedDataSet?$filter=EnergySourcesTechniques eq '{source_key}'"
SourceUrl(i) == Url("https", TRUE, ENERGY_SOURCES[i][1], 1)

\* fetch_all_renewable_data: the first source
FetchAll ==
    /\ script = "renewable_data" /\ pc = "start"
    /\ srcIdx' = 1
    /\ url' = SourceUrl(1)
    /\ attempt' = 0
    /\ sleeps' = <<>>
    /\ tries' = <<0>>
    /\ pc' = "retry"
    /\ UNCHANGED <<period, parsed, script, dataset, linkKey, results, df, key_to_sheet, warned, frames,
                   written, exported, verdict, raised, fetchFailed, exitCode>>

\* The for loop of fetch_all_renewable_data moves on, or returns to main;
\* counted are the GETs counted so far.
NextSource(counted) ==
    IF srcIdx < Len(ENERGY_SOURCES)
    THEN /\ srcIdx' = srcIdx + 1
         /\ url' = SourceUrl(srcIdx + 1)
         /\ attempt' = 0
         /\ sleeps' = <<>>
         /\ tries' = Append(counted, 0)
         /\ pc' = "retry"
    ELSE /\ pc' = "main"
         /\ url' = NoUrl
         /\ tries' = counted
         /\ UNCHANGED <<srcIdx, attempt, sleeps>>

\* fetch_with_retry: the GET succeeds; response.json() is returned.
FetchWithRetryOk ==
    /\ script = "renewable_data" /\ pc = "retry"
    /\ results' = Response(dataset, linkKey, url).value
    /\ tries' = Tried
    /\ pc' = "frame"
    /\ UNCHANGED <<period, parsed, script, dataset, linkKey, url, attempt, sleeps, srcIdx, df, key_to_sheet,
                   warned, frames, written, exported, verdict, raised, fetchFailed, exitCode>>

\* fetch_with_retry: an exception with attempts left; sleep(delay).
FetchWithRetryFail ==
    /\ script = "renewable_data" /\ pc = "retry" /\ attempt < MaxRetries - 1
    /\ sleeps' = Append(sleeps, RetryDelay)
    /\ attempt' = attempt + 1
    /\ tries' = Tried
    /\ UNCHANGED <<period, parsed, script, dataset, linkKey, pc, url, results, srcIdx, df, key_to_sheet,
                   warned, frames, written, exported, verdict, raised, fetchFailed, exitCode>>

\* fetch_with_retry: the last attempt raises; fetch_all_renewable_data prints
\* the error and continues with the next source.
FetchWithRetryExhausted ==
    /\ script = "renewable_data" /\ pc = "retry" /\ attempt = MaxRetries - 1
    /\ fetchFailed' = TRUE
    /\ NextSource(Tried)
    /\ UNCHANGED <<period, parsed, script, dataset, linkKey, results, df, key_to_sheet, warned, frames,
                   written, exported, verdict, raised, exitCode>>

\* fetch_energy_source_data, after fetch_with_retry; an exception leaves the
\* sheet out of the results.
EnergySourceFrame ==
    /\ script = "renewable_data" /\ pc = "frame"
    /\ LET out == energy_source_frame(results)
       IN  frames' = IF out.raised = "none"
                     THEN [frames EXCEPT ![ENERGY_SOURCES[srcIdx][2]] = Frame(out.rows)]
                     ELSE frames
    /\ NextSource(tries)
    /\ UNCHANGED <<period, parsed, script, dataset, linkKey, results, df, key_to_sheet, warned, written,
                   exported, verdict, raised, fetchFailed, exitCode>>

\* main: "if not renewable_data: ... return"
MainCheck ==
    /\ script = "renewable_data" /\ pc = "main"
    /\ IF \A sh \in Sheets : ~frames[sh].present
       THEN pc' = "done" /\ exitCode' = 0
       ELSE pc' = "export" /\ exitCode' = exitCode
    /\ UNCHANGED <<period, parsed, script, dataset, linkKey, url, attempt, results, sleeps, tries, srcIdx,
                   df, key_to_sheet, warned, frames, written, exported, verdict, raised,
                   fetchFailed>>

ExportToExcel ==
    /\ script = "renewable_data" /\ pc = "export"
    /\ written' = frames
    /\ exported' = TRUE
    /\ pc' = "verify"
    /\ UNCHANGED <<period, parsed, script, dataset, linkKey, url, attempt, results, sleeps, tries, srcIdx,
                   df, key_to_sheet, warned, frames, verdict, raised, fetchFailed, exitCode>>

\* main: verify_against_reference, then main returns.
VerifyAgainstReference ==
    /\ script = "renewable_data" /\ pc = "verify"
    /\ verdict' = verify_against_reference(frames)
    /\ IF verify_against_reference(frames).raised
       THEN Crash("Exception")
       ELSE pc' = "done" /\ exitCode' = 0 /\ raised' = raised
    /\ UNCHANGED <<period, parsed, script, dataset, linkKey, url, attempt, results, sleeps, tries, srcIdx,
                   df, key_to_sheet, warned, frames, written, exported, fetchFailed>>

RenewableData ==
    \/ FetchAll \/ FetchWithRetryOk \/ FetchWithRetryFail \/ FetchWithRetryExhausted
    \/ EnergySourceFrame \/ MainCheck \/ ExportToExcel \/ VerifyAgainstReference

Next == Renewable \/ CbsData \/ RenewableData

Spec == Init /\ [][Next]_vars

\* ------------------------------------------------------ the fetcher claims

\* The URL a script's fetch starts from.
BaseUrl ==
    CASE script = "renewable" -> Url("https", FALSE, <<>>, 1)
      [] script = "cbs_data" -> Url("http", FALSE, <<>>, 1)
      [] script = "renewable_data" -> SourceUrl(srcIdx)

\* The field in which a script looks for the continuation URL;
\* fetch_energy_source_data looks for none, the server's own name stands in.
ContinuationKey ==
    CASE script = "renewable" -> "odata.nextLink"
      [] script = "cbs_data" -> "@odata.nextLink"
      [] script = "renewable_data" -> linkKey

RECURSIVE ChainValues(_, _)
\* The "value" arrays of every page reachable from u through the field name,
\* concatenated in page order.
ChainValues(u, name) ==
    LET data == Response(dataset, linkKey, u)
        next_link == GetLink(data, name)
    IN  data.value \o (IF next_link = NoUrl THEN <<>> ELSE ChainValues(next_link, name))

RECURSIVE PagesValues(_, _)
\* The "value" arrays of the pages 1..k of u's query.
PagesValues(u, k) ==
    IF k = 0 THEN <<>>
    ELSE PagesValues(u, k - 1) \o Response(dataset, linkKey, [u EXCEPT !.page = k]).value

\* The fetch of the current URL chain has returned its list to the caller.
FetchReturned ==
    \/ script = "renewable" /\ pc = "fetched"
    \/ script = "cbs_data" /\ pc = "process" /\ tries # <<>>
    \/ script = "renewable_data" /\ pc = "frame"

\* No request failed so far.
AllSucceeded == ~fetchFailed /\ \A i \in 1..Len(tries) : tries[i] <= 1

\* C1: with a server that answers every request successfully, the fetcher
\* returns the concatenation, in page order, of the "value" arrays of every
\* page reachable through the continuation URL from the base URL.
C1_AllPagesFetched ==
    (FetchReturned /\ AllSucceeded) => results = ChainValues(BaseUrl, ContinuationKey)

NonDecreasing(s) == \A i \in 1..(Len(s) - 1) : s[i] <= s[i + 1]

\* The attempts a fetcher may make on one page: 5 in _get_json, 3 in
\* fetch_with_retry; the spec's upper bound for fetch_data_manually.
AttemptBound ==
    CASE script = "renewable" -> GetJsonAttempts
      [] script = "cbs_data" -> GetJsonAttempts
      [] script = "renewable_data" -> MaxRetries

\* The fetch ended in an exception after connection errors or timeouts.
FatalByConnection == fetchFailed /\ raised # "HTTPError"

\* C2: on a connection error or timeout the fetcher retries the same page URL
\* with delays that never decrease, makes at most the bound of attempts on a
\* page, and only when every attempt of the bound failed ends in a fatal error,
\* with no record list returned.
C2_RetryThenFatal ==
    /\ NonDecreasing(sleeps)
    /\ \A i \in 1..Len(tries) : tries[i] <= AttemptBound
    /\ FatalByConnection => \E i \in 1..Len(tries) : tries[i] >= 2
    /\ (FatalByConnection /\ script # "renewable_data") =>
           (pc = "done" /\ \A sh \in Sheets : ~frames[sh].present)

\* C3: in _get_json a failed attempt appends nothing and leaves the URL where
\* it is, and a page's records are appended exactly once: while fetching, the
\* accumulator holds the pages before the current one, whatever the number of
\* failures, and the list returned is the full record set of all pages.
C3_NoDuplicatesNoGaps ==
    script = "renewable" =>
        /\ pc = "get_json" =>
               /\ url.page = Len(tries)
               /\ results = PagesValues(BaseUrl, Len(tries) - 1)
        /\ (pc \notin {"start", "get_json"} /\ ~fetchFailed) =>
               results = ChainValues(BaseUrl, "odata.nextLink")

\* Three pages, the second of which failed twice and succeeded on the third attempt.
C3_Witness ==
    /\ script = "renewable" /\ pc = "fetched"
    /\ tries = <<1, 3, 1>>
    /\ Len(results) = Len(dataset)

\* C4: a fetch that fails fatally aborts the run: no spreadsheet is written
\* after a fetch failure.
C4_NoSpreadsheetAfterFetchFailure == exported => ~fetchFailed

\* The verifier ran to its end and every reference cell passed.
VerificationPassed ==
    /\ ~verdict.raised
    /\ \A sh \in Sheets, y \in RefYears, k \in 1..2 : verdict.report[sh][y][k] = "PASS"

\* C5: the exit status is 0 exactly when verification passed for every
\* reference entry; it is non-zero when a comparison fails or the fetch fails.
C5_ExitStatus == pc = "done" => (exitCode = 0 <=> (VerificationPassed /\ ~fetchFailed))

\* ------------------------------------------------- the year parser alone

PeriodPrefixes == {<<>>, <<" ">>, <<"x">>}

PeriodCores == {Y2023, <<"2", "0", "2">>, <<"2", "0", "2", "3", "1">>, <<"a", "b", "c", "d">>, <<>>}

PeriodSuffixes ==
    {<<>>, JJ00, <<"J", "J", "0">>, JJ00 \o <<"x">>, <<"K", "W", "0", "1">>, <<" ">>, JJ00 \o Y2024}

\* Period strings of the recognised shapes and of neighbouring shapes.
PeriodStrings == {a \o b \o c : a \in PeriodPrefixes, b \in PeriodCores, c \in PeriodSuffixes}

AllVars ==
    <<script, dataset, linkKey, pc, url, attempt, results, sleeps, tries, srcIdx, df,
      key_to_sheet, warned, frames, written, exported, verdict, raised, fetchFailed, exitCode>>

InitParse ==
    /\ period \in PeriodStrings
    /\ parsed = NotParsed
    /\ script = "renewable" /\ dataset = DS_Empty /\ linkKey = "odata.nextLink"
    /\ pc = "parse" /\ url = NoUrl /\ attempt = 0 /\ results = <<>> /\ sleeps = <<>>
    /\ tries = <<>> /\ srcIdx = 0 /\ df = <<>> /\ key_to_sheet = <<>> /\ warned = {}
    /\ frames = NoFrames /\ written = NoFrames /\ exported = FALSE /\ verdict = NoVerdict
    /\ raised = "none" /\ fetchFailed = FALSE /\ exitCode = -1

YearFromPeriod ==
    /\ pc = "parse" /\ parsed.fn = "none"
    /\ parsed' = [fn |-> "year_from_period", out |-> year_from_period(period)]
    /\ UNCHANGED <<period, AllVars>>

CleanYear ==
    /\ pc = "parse" /\ parsed.fn = "none"
    /\ parsed' = [fn |-> "clean_year", out |-> clean_year(period)]
    /\ UNCHANGED <<period, AllVars>>

ExtractYear ==
    /\ pc = "parse" /\ parsed.fn = "none"
    /\ parsed' = [fn |-> "extract_year", out |-> extract_year(period)]
    /\ UNCHANGED <<period, AllVars>>

NextParse == YearFromPeriod \/ CleanYear \/ ExtractYear

SpecParse == InitParse /\ [][NextParse]_vars

\* What the year parser is to give: the year of a string that is exactly four
\* digits, or exactly four digits and the annual suffix; no year otherwise.
SpecifiedYear(s) ==
    IF Len(s) = 4 /\ AllDigits(s) THEN YearOf(DigitsToInt(s))
    ELSE IF Len(s) = 8 /\ AllDigits(SubSeq(s, 1, 4)) /\ SubSeq(s, 5, 8) = JJ00
         THEN YearOf(DigitsToInt(SubSeq(s, 1, 4)))
    ELSE NoYear

\* C7: the year parser returns Y for a string that is exactly a 4-digit
\* numeral Y or exactly Y followed by the annual suffix, and None, without
\* raising, for every other string.
C7_YearParser == parsed.fn # "none" => parsed.out = SpecifiedYear(period)

\* ------------------------------------------- the pipeline after the fetch

PipeKeys == {KOnshore \o Sp, KOffshore \o Sp, KOther, LOnshore}

PipePeriods == {Y2023 \o JJ00, Y2024 \o JJ00}

\* <<production, capacity>> as the server sends them.
PipeMetrics ==
    {<<MkInt(17482), MkInt(6692)>>, <<MkInt(11553), MkInt(4110)>>,
     <<MkInt(17657), MkInt(6955)>>, <<Null, MkInt(6692)>>, <<MkStr(<<>>), MkInt(4110)>>}

PipeRecords == {Rec(k, p, m[1], m[2]) : k \in PipeKeys, p \in PipePeriods, m \in PipeMetrics}

RecordLists == UNION {[1..n -> PipeRecords] : n \in 0..MaxRecords}

\* The state in which a script's download has just returned recs:
\* _get_json to fetch_data, cbsodata.get_data to fetch_and_process_data, and
\* fetch_with_retry to fetch_energy_source_data for the last source, whose
\* filter lets only that source's key through.
InitPipe ==
    \E sc \in Scripts, recs \in RecordLists :
        /\ script = sc
        /\ sc = "renewable_data" =>
               /\ Len(recs) <= PageSize
               /\ \A i \in 1..Len(recs) : recs[i].key = ENERGY_SOURCES[Len(ENERGY_SOURCES)][1]
        /\ dataset = recs
        /\ results = recs
        /\ linkKey = "odata.nextLink"
        /\ pc = CASE sc = "renewable" -> "fetched"
                  [] sc = "cbs_data" -> "process"
                  [] sc = "renewable_data" -> "frame"
        /\ srcIdx = IF sc = "renewable_data" THEN Len(ENERGY_SOURCES) ELSE 0
        /\ tries = IF sc = "cbs_data" THEN <<>> ELSE <<1>>
        /\ url = IF sc = "renewable_data" THEN SourceUrl(Len(ENERGY_SOURCES)) ELSE NoUrl
        /\ attempt = 0 /\ sleeps = <<>> /\ df = <<>> /\ key_to_sheet = <<>> /\ warned = {}
        /\ frames = NoFrames /\ written = NoFrames /\ exported = FALSE
        /\ verdict = NoVerdict /\ raised = "none" /\ fetchFailed = FALSE /\ exitCode = -1
        /\ period = <<>> /\ parsed = NotParsed

NextPipe ==
    \/ FetchDataFrame \/ DiscoverSourceKeys \/ BuildFrames \/ WriteExcel \/ Verify \/ SysExit
    \/ FetchAndProcess \/ VerifyData \/ ExportExcel
    \/ EnergySourceFrame \/ MainCheck \/ ExportToExcel \/ VerifyAgainstReference

SpecPipe == InitPipe /\ [][NextPipe]_vars

\* ------------------------------------------- verifier and classifier claims

\* A reference cell's category or year is missing from the computed series.
MissingFromSeries(sh, y) == ~frames[sh].present \/ y \notin YearsOf(frames[sh].rows)

\* verify (fetch_cbs_renewable.py) or verify_data (fetch_cbs_data.py) returned.
VerifierReturned ==
    /\ script \in {"renewable", "cbs_data"}
    /\ verdict # NoVerdict
    /\ ~verdict.raised

\* C6: every reference cell whose category or year is missing from the
\* computed series is reported as FAIL and makes the overall result false.
C6_MissingCellFails ==
    VerifierReturned =>
        \A sh \in Sheets, y \in RefYears :
            MissingFromSeries(sh, y) =>
                /\ verdict.report[sh][y] = <<"FAIL", "FAIL">>
                /\ ~verdict.ok

\* The sheet of a static table whose key equals the record's key once both
\* are trimmed: source_mapping, ENERGY_SOURCES.
TrimmedMatch(key, sh) ==
    CASE script = "cbs_data" ->
           \E k \in SourceMappingKeys : Strip(k) = Strip(key) /\ source_mapping(k) = sh
      [] script = "renewable_data" ->
           \E i \in 1..Len(ENERGY_SOURCES) :
               Strip(ENERGY_SOURCES[i][1]) = Strip(key) /\ ENERGY_SOURCES[i][2] = sh
      [] OTHER -> FALSE

\* Every source of the run was classified, each download having succeeded at
\* the first attempt and nothing having raised.
ClassificationDone ==
    /\ AllSucceeded
    /\ raised = "none"
    /\ \/ script = "cbs_data" /\ pc \in {"verify", "export", "done"}
       \/ script = "renewable_data" /\ pc \in {"main", "export", "verify", "done"}

\* The records put before the classifier: the downloaded list in
\* fetch_cbs_data.py, the server's table (which the $filter classifies) in
\* fetch_cbs_renewable_data.py.
ClassifierInput == IF script = "cbs_data" THEN results ELSE dataset

\* C8: a record whose key, trimmed, equals a key of the static table is
\* assigned to that key's category, whatever blanks surround the record's
\* key or the table's key.
C8_TrimmedKeyClassified ==
    ClassificationDone =>
        \A sh \in Sheets :
            (\E i \in 1..Len(ClassifierInput) : TrimmedMatch(ClassifierInput[i].key, sh)) =>
                frames[sh].present /\ frames[sh].rows # <<>>

\* fetch_and_process_data raised while classifying a non-empty record set.
ClassificationRaised ==
    /\ script = "cbs_data"
    /\ pc = "done" /\ raised # "none"
    /\ ~fetchFailed /\ verdict = NoVerdict
    /\ results # <<>>

\* C9: records whose key matches no table entry are left out of every series
\* and never cause an error, also when no record at all matches.
C9_UnmatchedIsNoError ==
    /\ ~ClassificationRaised
    /\ (script = "cbs_data" /\ pc \in {"verify", "export"}) =>
           \A sh \in Sheets :
               Len(frames[sh].rows) =
                   Len(SelectSeq(MappedRecords(results), LAMBDA r : source_mapping(r.key) = sh))

\* C10: after discover_source_keys, a category with exactly one 2023 record
\* equal to its reference pair is bound to that record's key; a category with
\* none or several is unbound and warned about; the function returns normally.
C10_UniqueMatchBinds ==
    (script = "renewable" /\ pc \in {"build", "export", "verify", "exit"}) =>
        \A sh \in Sheets :
            IF Len(Matches2023(df, sh)) = 1
            THEN KeyOfSheet(key_to_sheet, sh) = {Matches2023(df, sh)[1].key} /\ sh \notin warned
            ELSE KeyOfSheet(key_to_sheet, sh) = {} /\ sh \in warned

\* --------------------------------------------------- the verifiers alone

\* Differences, in thousandths, between a fetched cell and its reference:
\* around the tolerance of one unit and around that of a hundredth.
Offsets == {-1000, -999, -500, -11, -10, -9, 0, 9, 10, 11, 500, 999, 1000}

\* The reference value of a cell (k = 1 production, 2 capacity) in the
\* thousandths of the unit in which the script's frames hold it.
ReferenceMilli(sc, sh, y, k) ==
    CASE sc = "renewable" -> REFERENCE[sh][y][k] * 1000
      [] sc = "cbs_data" -> REFERENCE_VALUES[y][sh][k] * 1000
      [] sc = "renewable_data" ->
           IF k = 1 THEN REFERENCE_DATA[sh][y][1] ELSE REFERENCE_DATA[sh][y][2] * 1000

\* The frames that reproduce the reference table, but for the cells of one
\* sheet and year, which lie dp and dc from their reference values.
FramesNear(sc, sh0, y0, dp, dc) ==
    [sh \in Sheets |->
        Frame([i \in 1..3 |->
            LET y == 2021 + i
                near == sh = sh0 /\ y = y0
            IN  Row(y, Num(ReferenceMilli(sc, sh, y, 1) + (IF near THEN dp ELSE 0)),
                       Num(ReferenceMilli(sc, sh, y, 2) + (IF near THEN dc ELSE 0)))])]

\* A script as it reaches its verifier with such frames: after the export in
\* fetch_cbs_renewable.py and fetch_cbs_renewable_data.py, before it in
\* fetch_cbs_data.py.
InitVerify ==
    \E sc \in Scripts, sh0 \in Sheets, y0 \in RefYears, dp \in Offsets, dc \in Offsets :
        /\ script = sc
        /\ frames = FramesNear(sc, sh0, y0, dp, dc)
        /\ pc = "verify"
        /\ exported = (sc # "cbs_data")
        /\ written = IF sc # "cbs_data" THEN frames ELSE NoFrames
        /\ dataset = DS_Ref /\ results = DS_Ref /\ linkKey = "odata.nextLink"
        /\ srcIdx = IF sc = "renewable_data" THEN Len(ENERGY_SOURCES) ELSE 0
        /\ tries = <<1>> /\ url = NoUrl
        /\ attempt = 0 /\ sleeps = <<>> /\ df = <<>> /\ key_to_sheet = <<>> /\ warned = {}
        /\ verdict = NoVerdict /\ raised = "none" /\ fetchFailed = FALSE /\ exitCode = -1
        /\ period = <<>> /\ parsed = NotParsed

NextVerify == Verify \/ SysExit \/ VerifyData \/ ExportExcel \/ VerifyAgainstReference

SpecVerify == InitVerify /\ [][NextVerify]_vars

\* The threshold of a cell, in thousandths: a hundredth for the production of
\* fetch_cbs_renewable_data.py, one unit elsewhere.
Threshold(sc, k) == IF sc = "renewable_data" /\ k = 1 THEN 10 ELSE 1000

AbsDiff(a, b) == IF a >= b THEN a - b ELSE b - a

\* The fetched value of a cell of the frames, in thousandths.
Fetched(sh, y, k) ==
    LET r == RowsAt(frames[sh].rows, y)[1]
    IN  IF k = 1 THEN r.prod.m ELSE r.cap.m

\* A verifier has returned its verdict on the frames.
VerifierDone == verdict # NoVerdict /\ ~verdict.raised

\* C11: a cell passes exactly when the absolute difference between the
\* fetched and the reference value is below the threshold: a value within the
\* threshold on either side passes, one at or beyond it fails.
C11_ToleranceComparison ==
    VerifierDone =>
        \A sh \in Sheets, y \in RefYears, k \in 1..2 :
            (verdict.report[sh][y][k] = "PASS") <=>
                (AbsDiff(Fetched(sh, y, k), ReferenceMilli(script, sh, y, k)) < Threshold(script, k))

\* ------------------------------------------------- coercion of metrics

\* The records with every metric that is missing or no number replaced by 0.
Zeroed(records) ==
    MapSeq(LAMBDA r : [r EXCEPT !.prod = IF @.t = "int" THEN @ ELSE MkInt(0),
                                !.cap = IF @.t = "int" THEN @ ELSE MkInt(0)],
           records)

\* The series the script builds from the zeroed records.
ZeroedFrames ==
    CASE script = "cbs_data" -> fetch_and_process_data(Zeroed(results)).frames
      [] script = "renewable" ->
           LET zdf == YearlyRows(Zeroed(results))
           IN  FramesFrom(zdf, discover_source_keys(zdf), 1, NoFrames)

\* The run on the zeroed records ends in an exception.
ZeroedRaises ==
    CASE script = "cbs_data" ->
           \/ fetch_and_process_data(Zeroed(results)).raised # "none"
           \/ verify_data(ZeroedFrames).raised
      [] script = "renewable" ->
           \/ FetchDataRaises(Zeroed(results))
           \/ \A sh \in Sheets : ~ZeroedFrames[sh].present
           \/ verify(ZeroedFrames).raised

\* The series of the run are built.
SeriesBuilt ==
    \/ script = "cbs_data" /\ pc \in {"verify", "export"}
    \/ script = "renewable" /\ pc \in {"export", "verify", "exit"}

\* C12: a metric that is missing or fails numeric coercion appears as 0 in the
\* yearly series, the rest of the record and the other records being kept,
\* and neither aggregation nor verification raises because of it: series,
\* verdict and exceptions are those of the same records with 0 in its place.
C12_BadMetricIsZero ==
    script \in {"cbs_data", "renewable"} =>
        /\ SeriesBuilt => frames = ZeroedFrames
        /\ raised # "none" => ZeroedRaises
        /\ (verdict # NoVerdict /\ ~verdict.raised) =>
               verdict.report = (IF script = "cbs_data" THEN verify_data(ZeroedFrames)
                                 ELSE verify(ZeroedFrames)).report

\* ------------------------------------------------------ the yearly series

\* No year labels two rows of the series.
OneEntryPerYear(rows) == \A i, j \in 1..Len(rows) : rows[i].year = rows[j].year => i = j

\* C13: every yearly series the pipeline builds has at most one entry per
\* year, whatever the fetched record set.
C13_AtMostOneEntryPerYear == \A sh \in Sheets : OneEntryPerYear(frames[sh].rows)

\* The records of the downloaded list that belong to a category: by the
\* table of fetch_cbs_data.py, by the binding of discover_source_keys, by the
\* source whose request returned them in fetch_cbs_renewable_data.py.
CategoryRecords(sh) ==
    CASE script = "cbs_data" ->
           SelectSeq(results, LAMBDA r :
               Strip(r.key) \in SourceMappingKeys /\ source_mapping(Strip(r.key)) = sh)
      [] script = "renewable" ->
           SelectSeq(results, LAMBDA r : r.key \in KeyOfSheet(key_to_sheet, sh))
      [] script = "renewable_data" ->
           IF srcIdx \in 1..Len(ENERGY_SOURCES) /\ ENERGY_SOURCES[srcIdx][2] = sh
           THEN results ELSE <<>>

\* The year an annual period string names.
RecordYear(r) == DigitsToInt(SubSeq(r.period, 1, 4))

\* N records with N distinct years and two numbers each.
DistinctYears(recs) ==
    /\ recs # <<>>
    /\ \A i, j \in 1..Len(recs) : RecordYear(recs[i]) = RecordYear(recs[j]) => i = j
    /\ \A i \in 1..Len(recs) : recs[i].prod.t = "int" /\ recs[i].cap.t = "int"

\* Every script's series are built.
AllSeriesBuilt ==
    \/ SeriesBuilt
    \/ script = "renewable_data" /\ pc \in {"main", "export", "verify"}

\* Reading the series back gives, for each record, its year's one row with
\* the record's two values, and the series has no other row.
ReadsBack(rows, recs) ==
    /\ Len(rows) = Len(recs)
    /\ \A i \in 1..Len(recs) :
           RowsAt(rows, RecordYear(recs[i])) =
               <<Row(RecordYear(recs[i]), CellOf(recs[i].prod), CellOf(recs[i].cap))>>

\* C14: a category's series built from N records of N distinct years reads
\* back, for every year, exactly the production and capacity of that year's
\* record: no record dropped, no value changed.
C14_RoundTrip ==
    AllSeriesBuilt =>
        \A sh \in Sheets :
            DistinctYears(CategoryRecords(sh)) =>
                frames[sh].present /\ ReadsBack(frames[sh].rows, CategoryRecords(sh))

\* ------------------------------------------------- the order of the stages

\* The positions of main at which fetching, classification and aggregation
\* are over.
AfterAggregation ==
    CASE script = "renewable" -> pc \in {"export", "verify", "exit", "done"}
      [] script = "cbs_data" -> pc \in {"verify", "export", "done"}
      [] script = "renewable_data" -> pc \in {"main", "export", "verify", "done"}

\* C15: main runs fetch, classify, aggregate, export, verify in this order:
\* the spreadsheet is written only once fetching and aggregation are over,
\* and the verifier never runs before the spreadsheet is written.
C15_StageOrder ==
    /\ exported => AfterAggregation
    /\ verdict # NoVerdict => exported

\* ------------------------------------ discovery and verification together

\* How many rows of the published table a fetched record set may differ in.
MaxReplaced == 2

DiscoverKeys == {KOnshore \o Sp, KOther \o Sp}

DiscoverPeriods == {Y2023 \o JJ00, Y2024 \o JJ00}

\* The 2023 reference pairs of two categories, and a pair that has the
\* production of one and another capacity.
DiscoverMetrics ==
    {<<MkInt(17482), MkInt(6692)>>, <<MkInt(11553), MkInt(4110)>>, <<MkInt(17482), MkInt(7000)>>}

DiscoverRecords ==
    {Rec(k, p, m[1], m[2]) : k \in DiscoverKeys, p \in DiscoverPeriods, m \in DiscoverMetrics}

\* The rows of the two wind categories in the published table.
WindRows == 1..6

\* fetch_cbs_renewable.py as _get_json returns a record set that differs from
\* the published table in at most MaxReplaced of its wind rows.
InitDiscover ==
    \E P \in {Q \in SUBSET WindRows : Cardinality(Q) <= MaxReplaced} :
        \E f \in [P -> DiscoverRecords] :
            /\ results = [i \in 1..Len(DS_Ref) |-> IF i \in P THEN f[i] ELSE DS_Ref[i]]
            /\ dataset = results
            /\ script = "renewable"
            /\ linkKey = "odata.nextLink"
            /\ pc = "fetched"
            /\ tries = <<1, 1, 1>> /\ url = NoUrl /\ srcIdx = 0
            /\ attempt = 0 /\ sleeps = <<>> /\ df = <<>> /\ key_to_sheet = <<>> /\ warned = {}
            /\ frames = NoFrames /\ written = NoFrames /\ exported = FALSE
            /\ verdict = NoVerdict /\ raised = "none" /\ fetchFailed = FALSE /\ exitCode = -1
            /\ period = <<>> /\ parsed = NotParsed

NextDiscover ==
    FetchDataFrame \/ DiscoverSourceKeys \/ BuildFrames \/ WriteExcel \/ Verify \/ SysExit

SpecDiscover == InitDiscover /\ [][NextDiscover]_vars

\* The fetched record set has integer metrics and at most one row per key
\* and year.
OneRowPerKeyYear ==
    LET rows == YearlyRows(results)
    IN  /\ \A i \in 1..Len(results) : results[i].prod.t = "int" /\ results[i].cap.t = "int"
        /\ \A i, j \in 1..Len(rows) :
               (rows[i].key = rows[j].key /\ rows[i].year = rows[j].year) => i = j

Bound(sh) == KeyOfSheet(key_to_sheet, sh) # {}

Discovered == script = "renewable" /\ pc \in {"build", "export", "verify", "exit", "done"}

\* C16: in fetch_cbs_renewable.py, on a record set with integer metrics and
\* at most one row per key and year, no key is bound to two categories, verify
\* reports PASS for both 2023 cells of every bound category, and verify
\* returns True only if all three categories are bound.
C16_BoundCategoriesPass2023 ==
    (Discovered /\ OneRowPerKeyYear) =>
        /\ \A i, j \in 1..Len(key_to_sheet) :
               key_to_sheet[i].key = key_to_sheet[j].key => i = j
        /\ verdict # NoVerdict =>
               /\ ~verdict.raised
               /\ \A sh \in Sheets :
                      Bound(sh) => verdict.report[sh][DiscoverYear] = <<"PASS", "PASS">>
               /\ verdict.ok => \A sh \in Sheets : Bound(sh)

\* verify returned on a record set in which one category is bound and another,
\* whose pair two rows carry, is not.
C16_Witness ==
    /\ Discovered /\ OneRowPerKeyYear
    /\ verdict # NoVerdict /\ ~verdict.raised
    /\ Bound("Offshore Wind") /\ ~Bound("Onshore Wind")
    /\ Len(Matches2023(df, "Onshore Wind")) = 2

====
